---------------------------- MODULE Spec2Model ----------------------------
(***************************************************************************)
(* Model of the agent-ctl test-VM harness of kata-containers:              *)
(*   src/tools/agent-ctl/src/rpc.rs        run                             *)
(*   src/tools/agent-ctl/src/vm/clh.rs     setup_test_vm / stop_test_vm    *)
(*   src/tools/agent-ctl/src/vm/qemu.rs    setup_test_vm / stop_test_vm    *)
(*   src/tools/agent-ctl/src/vm/utils.rs   the storage injection pipeline  *)
(*                                                                         *)
(* One thread of control: rpc::run boots the VM step by step (pc), hands   *)
(* control to the RPC client, during which the storage pipeline entry      *)
(* points (do_handle_storage, append_storages_and_mounts, unmount_shares)  *)
(* may be called, and finally stops the VM.  Every fallible call of an     *)
(* external collaborator (hypervisor, device manager, virtiofsd helper,    *)
(* mount syscalls) is a nondeterministic choice of its outcome.            *)
(*                                                                         *)
(* Three specifications share the variables: Spec is rpc::run alone,       *)
(* SpecStorage the storage pipeline on a booted VM, SpecBootInject rpc::run*)
(* with a client that injects storage lists.                               *)
(*                                                                         *)
(* vm/mod.rs under src/ is an older revision than its caller (rpc.rs) and  *)
(* its callees (clh.rs, qemu.rs): it takes no backend name, knows no qemu  *)
(* module and passes no SharedFs record.  The dispatch by backend name in  *)
(* boot_test_vm / stop_test_vm is therefore taken from the specification   *)
(* (section 4.2); so is the helper module vm/virtio_fs.rs.                 *)
(***************************************************************************)
EXTENDS Naturals, Sequences, FiniteSets, TLC

(***************************************************************************)
(* Bounds of the model.                                                    *)
(***************************************************************************)
MaxList == 2

MaxInject == 2

MaxDrain == 2

MaxUnmount == 2

(***************************************************************************)
(* Program constants.                                                      *)
(***************************************************************************)
CLH_HYP == "clh"

QEMU_HYP == "qemu"

CNT_MNT_BASE == "/tmp/foo"

GUEST_BASE_PATH == "/run/kata-containers"

GUEST_SHARED_PATH == "/run/kata-containers/shared/containers"

TEST_BLK_APPEND == "test-blk-vol"

\* ":1024", pushed onto the socket address by qemu::setup_test_vm
AgentPort == <<":", "1", "0", "2", "4">>

\* "unix", the scheme rpc::run puts in front of a hybrid-vsock path
UnixScheme == <<"u", "n", "i", "x">>

SchemeSep == <<":", "/", "/">>

(***************************************************************************)
(* Inputs and outcomes of the external collaborators, drawn from small     *)
(* sets.  Strings that the code splits are sequences of characters.        *)
(***************************************************************************)
\* cfg.hypervisor_name as given on the command line
HypervisorNames == {"", CLH_HYP, QEMU_HYP, "dragonball"}

\* what Hypervisor::get_agent_socket may return
ClhSockets == {<<>>, <<"h", "v", "s", "o", "c", "k", ":", "/", "/", "/", "c">>}

QemuSockets == {<<"v", "s", "o", "c", "k", ":", "/", "/", "3">>}

\* cfg.server_address as given on the command line
ServerAddresses == {<<"v", "s", "o", "c", "k", ":", "/", "/", "9">>}

\* libc::VMADDR_CID_ANY, the guest_cid of the VsockConfig of add_vsock_device
VMADDR_CID_ANY == "VMADDR_CID_ANY"

\* hypervisor_config.boot_info.image, when the configuration names one
BootImage == "/usr/share/kata/kata.img"

\* process identity of a started virtiofsd
SidecarPids == {4242}

NoVm == [present |-> FALSE, hypervisor_name |-> "", socket_addr |-> <<>>,
         is_hybrid_vsock |-> FALSE, shared_fs_pid |-> 0]

VARIABLES
    pc,               \* position of rpc::run and of the boot / stop it calls
    hypervisor_name,  \* cfg.hypervisor_name
    server_address,   \* cfg.server_address
    hybrid_vsock,     \* cfg.hybrid_vsock
    image,            \* hypervisor_config.boot_info.image is non-empty
    hv,               \* state of the hypervisor instance
    dev_manager,      \* the DeviceManager exists
    devices,          \* devices attached through the DeviceManager, in order
    shared_fs_pid,    \* shared_fs_info.pid, the local of setup_test_vm
    virtiofsd,        \* the sidecar process
    agent_socket,     \* agent_socket_addr, the local of setup_test_vm
    test_vm,          \* the TestVm boot returned
    calls,            \* the calls made on the hypervisor and the sidecar helper
    fs_sharing,       \* what is_fs_sharing_supported() answered, if asked
    attach_log,       \* the calls and returns of do_handle_device, in order
    result,           \* what rpc::run returned
    client_result,    \* what client(cfg, commands) returned to rpc::run
    STORAGE_INFO,     \* the cache of storages handled by the hypervisor
    OCI_MOUNTS_INFO,  \* the cache of the mounts of those volumes
    UNMOUNT_HOST_INFO,\* the cache of host paths to unmount
    locks,            \* the cache locks held
    op,               \* the pipeline entry point being executed, or "idle"
    inj,              \* do_handle_storage: its list, position and arguments
    inj_result,       \* what the last do_handle_storage returned
    n_inject,         \* calls of do_handle_storage so far
    mounted,          \* host mount table: the bind-mount targets, in order
    bind_log,         \* every bind mount that succeeded, in order
    req,              \* the CreateContainerRequest of the client
    um_idx,           \* do_unmount: position in UNMOUNT_HOST_INFO
    um_result,        \* what the last unmount_shares returned
    unmount_log,      \* every path umount was called on, in order
    host_dirs,        \* host share directories that exist
    n_unmount,        \* calls of unmount_shares so far
    req_hist          \* drains into req, and whether a call of
                      \* do_handle_storage came after the first of them

lifeVars == <<pc, hypervisor_name, fs_sharing, attach_log, server_address,
              hybrid_vsock, image, hv, dev_manager, devices, shared_fs_pid,
              virtiofsd, agent_socket, test_vm, calls, result, client_result>>

pipeVars == <<STORAGE_INFO, OCI_MOUNTS_INFO, UNMOUNT_HOST_INFO, locks, op, inj,
              inj_result, n_inject, mounted, bind_log, req, um_idx,
              um_result, unmount_log, host_dirs, n_unmount, req_hist>>

vars == <<lifeVars, pipeVars>>

Pending == "pending"

NoInject == [storages |-> <<>>, idx |-> 1, host_share_path |-> "",
             s0 |-> 0, m0 |-> 0, u0 |-> 0, d0 |-> 0]

EmptyRequest == [storages |-> <<>>, mounts |-> <<>>]

\* the caches are empty statics, and no pipeline call was made yet
PipeInit ==
    /\ STORAGE_INFO = <<>>
    /\ OCI_MOUNTS_INFO = <<>>
    /\ UNMOUNT_HOST_INFO = <<>>
    /\ locks = {}
    /\ op = "idle"
    /\ inj = NoInject
    /\ inj_result = Pending
    /\ n_inject = 0
    /\ mounted = <<>>
    /\ bind_log = <<>>
    /\ req = EmptyRequest
    /\ um_idx = 1
    /\ um_result = Pending
    /\ unmount_log = <<>>
    /\ host_dirs = {}
    /\ n_unmount = 0
    /\ req_hist = [drains |-> 0, clean |-> TRUE]

Init ==
    /\ PipeInit
    /\ pc = <<"run", "start">>
    /\ hypervisor_name \in HypervisorNames
    /\ server_address \in ServerAddresses
    /\ hybrid_vsock = FALSE
    /\ image = FALSE
    /\ hv = "none"
    /\ dev_manager = FALSE
    /\ devices = <<>>
    /\ shared_fs_pid = 0
    /\ virtiofsd = "none"
    /\ agent_socket = <<>>
    /\ test_vm = NoVm
    /\ calls = <<>>
    /\ fs_sharing = "unknown"
    /\ attach_log = <<>>
    /\ result = Pending
    /\ client_result = Pending

(***************************************************************************)
(* Helpers.                                                                *)
(***************************************************************************)
Ok == "Ok"

\* `?` in setup_test_vm, then `?` on boot_test_vm in run: run returns the error
Return(r) ==
    /\ pc' = <<"run", "done">>
    /\ result' = r

Call(name) == calls' = Append(calls, name)

Called(name) == \E i \in 1..Len(calls) : calls[i] = name

\* the identifier the DeviceManager gives its n-th device
DeviceId(n) == "dev" \o ToString(n)

\* the guest PCI path of the n-th device, as PciPath::to_string prints it
PciPath(n) == "01/0" \o ToString(n)

NoPci == ""

\* the device do_handle_device registers and returns for a configuration of
\* this kind: the next identifier, and a PCI path if the driver has one
NewDevice(kind, readonly, has_pci) ==
    [kind |-> kind, readonly |-> readonly,
     device_id |-> DeviceId(Len(devices) + 1),
     pci_path |-> IF has_pci THEN PciPath(Len(devices) + 1) ELSE NoPci]

\* do_handle_device on the shared DeviceManager succeeded
Attach(dev) == devices' = Append(devices, dev)

\* an event of the log: cfg is the DeviceConfig variant, path the
\* path_on_host of a BlockCfg and the guest_cid of a VsockCfg
AttachEvent(ev, cfg, path) == [ev |-> ev, cfg |-> cfg, path |-> path]

\* a faulty call that does not wait for do_handle_device to return
DoHandleDevice_Detached(cfg, path) ==
    attach_log' = Append(attach_log, AttachEvent("call", cfg, path))

\* do_handle_device(&dev_mgr, &cfg).await: the call is made and the caller
\* goes on only when it has returned, whatever it returned
DoHandleDevice(cfg, path) ==
    attach_log' = attach_log \o <<AttachEvent("call", cfg, path),
                                  AttachEvent("return", cfg, path)>>

\* the calls of do_handle_device that have not returned
InFlight ==
    Cardinality({i \in 1..Len(attach_log) : attach_log[i].ev = "call"})
    - Cardinality({i \in 1..Len(attach_log) : attach_log[i].ev = "return"})

(***************************************************************************)
(* rpc::run, up to the boot.                                               *)
(***************************************************************************)
\* a faulty dispatch that boots Cloud-Hypervisor for every name it does not
\* know
BootTestVm_DefaultClh(name) ==
    /\ pc' = <<(IF name = QEMU_HYP THEN QEMU_HYP ELSE CLH_HYP), "load_config">>
    /\ UNCHANGED result

\* vm::boot_test_vm(name): select the backend by name
BootTestVm(name) ==
    IF name \in {CLH_HYP, QEMU_HYP}
    THEN /\ pc' = <<name, "load_config">>
         /\ UNCHANGED result
    ELSE Return("Err: unsupported hypervisor")

RunStart ==
    /\ pc = <<"run", "start">>
    /\ IF hypervisor_name # ""
       THEN BootTestVm(hypervisor_name)
       ELSE /\ pc' = <<"run", "client">>
            /\ UNCHANGED result
    /\ UNCHANGED <<hypervisor_name, client_result,
                   fs_sharing, attach_log, server_address,
                   hybrid_vsock, image, hv,
                   dev_manager, devices, shared_fs_pid, virtiofsd,
                   agent_socket, test_vm, calls>>
    /\ UNCHANGED pipeVars

(***************************************************************************)
(* setup_test_vm, the steps both backends share (b is the backend).        *)
(***************************************************************************)
\* load_config(path)?
LoadConfig(b) ==
    /\ pc = <<b, "load_config">>
    /\ \E ok \in BOOLEAN :
         IF ok
         THEN /\ pc' = <<b, "get_config">>
              /\ UNCHANGED result
         ELSE Return("Err: load config")
    /\ UNCHANGED <<hypervisor_name, client_result,
                   fs_sharing, attach_log, server_address,
                   hybrid_vsock, image, hv,
                   dev_manager, devices, shared_fs_pid, virtiofsd,
                   agent_socket, test_vm, calls>>
    /\ UNCHANGED pipeVars

\* toml_config.hypervisor.get(..).ok_or_else(..)?, then new() and
\* set_hypervisor_config(); images are the boot images the section may name
GetHypervisorConfig(b, images) ==
    /\ pc = <<b, "get_config">>
    /\ \E found \in BOOLEAN :
         IF found
         THEN /\ image' \in images
              /\ hv' = "configured"
              /\ Call("set_hypervisor_config")
              /\ pc' = <<b, "prepare">>
              /\ UNCHANGED result
         ELSE /\ Return("Err: get hypervisor config")
              /\ UNCHANGED <<image, hv, calls>>
    /\ UNCHANGED <<hypervisor_name, client_result,
                   fs_sharing, attach_log, server_address,
                   hybrid_vsock,
                   dev_manager, devices, shared_fs_pid, virtiofsd,
                   agent_socket, test_vm>>
    /\ UNCHANGED pipeVars

\* hypervisor.prepare_vm(NAME, None, &empty_anno_map).await?
PrepareVm(b) ==
    /\ pc = <<b, "prepare">>
    /\ Call("prepare_vm")
    /\ \E ok \in BOOLEAN :
         IF ok
         THEN /\ hv' = "prepared"
              /\ pc' = <<b, "dev_manager">>
              /\ UNCHANGED result
         ELSE /\ Return("Err: prepare test vm")
              /\ UNCHANGED hv
    /\ UNCHANGED <<hypervisor_name, client_result,
                   fs_sharing, attach_log, server_address,
                   hybrid_vsock, image,
                   dev_manager, devices, shared_fs_pid, virtiofsd,
                   agent_socket, test_vm>>
    /\ UNCHANGED pipeVars

\* DeviceManager::new(hypervisor.clone(), topo_config).await?
NewDeviceManager(b, next) ==
    /\ pc = <<b, "dev_manager">>
    /\ Call("DeviceManager::new")
    /\ \E ok \in BOOLEAN :
         IF ok
         THEN /\ dev_manager' = TRUE
              /\ pc' = <<b, next>>
              /\ UNCHANGED result
         ELSE /\ Return("Err: failed to create device manager")
              /\ UNCHANGED dev_manager
    /\ UNCHANGED <<hypervisor_name, client_result,
                   fs_sharing, attach_log, server_address,
                   hybrid_vsock, image, hv,
                   devices, shared_fs_pid, virtiofsd, agent_socket, test_vm>>
    /\ UNCHANGED pipeVars

\* a faulty boot that sets the sidecar up whatever the backend answers
Capabilities_IgnoreAnswer(b) ==
    /\ pc = <<b, "capabilities">>
    /\ Call("capabilities")
    /\ \E ok \in BOOLEAN, supported \in BOOLEAN :
         IF ok
         THEN /\ fs_sharing' = IF supported THEN "yes" ELSE "no"
              /\ pc' = <<b, "setup_fs">>
              /\ UNCHANGED result
         ELSE /\ Return("Err: capabilities")
              /\ UNCHANGED fs_sharing
    /\ UNCHANGED <<hypervisor_name, client_result, attach_log, server_address,
                   hybrid_vsock, image, hv,
                   dev_manager, devices, shared_fs_pid, virtiofsd,
                   agent_socket, test_vm>>
    /\ UNCHANGED pipeVars

\* if hypervisor.capabilities().await?.is_fs_sharing_supported() { .. }
Capabilities(b) ==
    /\ pc = <<b, "capabilities">>
    /\ Call("capabilities")
    /\ \E ok \in BOOLEAN, supported \in BOOLEAN :
         IF ok
         THEN /\ fs_sharing' = IF supported THEN "yes" ELSE "no"
              /\ pc' = <<b, IF supported THEN "setup_fs" ELSE "start">>
              /\ UNCHANGED result
         ELSE /\ Return("Err: capabilities")
              /\ UNCHANGED fs_sharing
    /\ UNCHANGED <<hypervisor_name, client_result, attach_log, server_address,
                   hybrid_vsock, image, hv,
                   dev_manager, devices, shared_fs_pid, virtiofsd,
                   agent_socket, test_vm>>
    /\ UNCHANGED pipeVars

\* virtio_fs::setup_virtio_fs(hypervisor, dev_manager, name): starts the
\* sidecar, attaches the shared-fs transport and returns its record
SetupVirtioFsOk(pid) ==
    /\ virtiofsd' = "running"
    /\ DoHandleDevice("ShareFsCfg", "")
    /\ Attach(NewDevice("share_fs", FALSE, FALSE))
    /\ shared_fs_pid' = pid

\* shared_fs_info = setup_virtio_fs(..).await?
SetupFs(b) ==
    /\ pc = <<b, "setup_fs">>
    /\ Call("setup_virtio_fs")
    /\ \E ok \in BOOLEAN :
         IF ok
         THEN /\ \E pid \in SidecarPids : SetupVirtioFsOk(pid)
              /\ pc' = <<b, "start">>
              /\ UNCHANGED result
         ELSE /\ Return("Err: setup virtio fs")
              /\ UNCHANGED <<virtiofsd, devices, shared_fs_pid, attach_log>>
    /\ UNCHANGED <<hypervisor_name, client_result, fs_sharing, server_address,
                   hybrid_vsock, image, hv,
                   dev_manager, agent_socket, test_vm>>
    /\ UNCHANGED pipeVars

\* a faulty boot that prepares the VM again when start_vm fails
StartVm_Reprepare(b) ==
    /\ pc = <<b, "start">>
    /\ Call("start_vm")
    /\ \E ok \in BOOLEAN :
         IF ok
         THEN /\ hv' = "running"
              /\ pc' = <<b, "socket">>
         ELSE /\ hv' = "configured"
              /\ pc' = <<b, "prepare">>
    /\ UNCHANGED <<hypervisor_name, client_result,
                   fs_sharing, attach_log, server_address,
                   hybrid_vsock, image,
                   dev_manager, devices, shared_fs_pid, virtiofsd,
                   agent_socket, test_vm, result>>
    /\ UNCHANGED pipeVars

\* hypervisor.start_vm(10_000).await?
StartVm(b) ==
    /\ pc = <<b, "start">>
    /\ Call("start_vm")
    /\ \E ok \in BOOLEAN :
         IF ok
         THEN /\ hv' = "running"
              /\ pc' = <<b, "socket">>
              /\ UNCHANGED result
         ELSE /\ hv' = "start_failed"
              /\ Return("Err: start vm")
    /\ UNCHANGED <<hypervisor_name, client_result,
                   fs_sharing, attach_log, server_address,
                   hybrid_vsock, image,
                   dev_manager, devices, shared_fs_pid, virtiofsd,
                   agent_socket, test_vm>>
    /\ UNCHANGED pipeVars

\* the TestVm setup_test_vm returns
TestVmOf(b, addr, hybrid) ==
    [present |-> TRUE, hypervisor_name |-> b, socket_addr |-> addr,
     is_hybrid_vsock |-> hybrid, shared_fs_pid |-> shared_fs_pid]

\* hypervisor.get_agent_socket().await?, then Ok(TestVm{..}); port is what
\* the backend pushes onto the address, hybrid its is_hybrid_vsock
GetAgentSocket(b, sockets, port, hybrid) ==
    /\ pc = <<b, "socket">>
    /\ Call("get_agent_socket")
    /\ \E ok \in BOOLEAN :
         IF ok
         THEN /\ \E addr \in sockets : agent_socket' = addr \o port
              /\ test_vm' = TestVmOf(b, agent_socket', hybrid)
              /\ pc' = <<"run", "booted">>
              /\ UNCHANGED result
         ELSE /\ Return("Err: get agent socket path")
              /\ UNCHANGED <<agent_socket, test_vm>>
    /\ UNCHANGED <<hypervisor_name, client_result,
                   fs_sharing, attach_log, server_address,
                   hybrid_vsock, image, hv,
                   dev_manager, devices, shared_fs_pid, virtiofsd>>
    /\ UNCHANGED pipeVars

(***************************************************************************)
(* stop_test_vm(instance, fs_info), the same text in both backends.        *)
(***************************************************************************)
\* a faulty stop_test_vm that never shuts the sidecar down
StopSidecar_Skip(b) ==
    /\ pc = <<b, "stop">>
    /\ pc' = <<b, "stop_vm">>
    /\ UNCHANGED <<calls, virtiofsd, result>>
    /\ UNCHANGED <<hypervisor_name, client_result,
                   fs_sharing, attach_log, server_address,
                   hybrid_vsock, image, hv,
                   dev_manager, devices, shared_fs_pid, agent_socket, test_vm>>
    /\ UNCHANGED pipeVars

\* a faulty stop_test_vm that shuts the sidecar down whatever its record says
StopSidecar_Always(b) ==
    /\ pc = <<b, "stop">>
    /\ Call("shutdown_virtiofsd")
    /\ \E ok \in BOOLEAN :
         IF ok
         THEN /\ virtiofsd' = IF virtiofsd = "running" THEN "stopped"
                                                       ELSE virtiofsd
              /\ pc' = <<b, "stop_vm">>
              /\ UNCHANGED result
         ELSE /\ Return("Err: shutdown virtiofsd")
              /\ UNCHANGED virtiofsd
    /\ UNCHANGED <<hypervisor_name, client_result,
                   fs_sharing, attach_log, server_address,
                   hybrid_vsock, image, hv,
                   dev_manager, devices, shared_fs_pid, agent_socket, test_vm>>
    /\ UNCHANGED pipeVars

\* if fs_info.pid > 0 { shutdown_virtiofsd(fs_info).await?; }
StopSidecar(b) ==
    /\ pc = <<b, "stop">>
    /\ IF test_vm.shared_fs_pid > 0
       THEN /\ Call("shutdown_virtiofsd")
            /\ \E ok \in BOOLEAN :
                 IF ok
                 THEN /\ virtiofsd' = "stopped"
                      /\ pc' = <<b, "stop_vm">>
                      /\ UNCHANGED result
                 ELSE /\ Return("Err: shutdown virtiofsd")
                      /\ UNCHANGED virtiofsd
       ELSE /\ pc' = <<b, "stop_vm">>
            /\ UNCHANGED <<calls, virtiofsd, result>>
    /\ UNCHANGED <<hypervisor_name, client_result,
                   fs_sharing, attach_log, server_address,
                   hybrid_vsock, image, hv,
                   dev_manager, devices, shared_fs_pid, agent_socket, test_vm>>
    /\ UNCHANGED pipeVars

\* instance.stop_vm().await.context(..)?; Ok(())
StopVm(b) ==
    /\ pc = <<b, "stop_vm">>
    /\ Call("stop_vm")
    /\ \E ok \in BOOLEAN :
         IF ok
         THEN /\ hv' = "stopped"
              /\ Return(Ok)
         ELSE /\ Return("Err: stop vm")
              /\ UNCHANGED hv
    /\ UNCHANGED <<hypervisor_name, client_result,
                   fs_sharing, attach_log, server_address,
                   hybrid_vsock, image,
                   dev_manager, devices, shared_fs_pid, virtiofsd,
                   agent_socket, test_vm>>
    /\ UNCHANGED pipeVars

(***************************************************************************)
(* clh::setup_test_vm and clh::stop_test_vm.                               *)
(***************************************************************************)
ClhLoadConfig == LoadConfig(CLH_HYP)

ClhGetHypervisorConfig == GetHypervisorConfig(CLH_HYP, {FALSE})

ClhPrepareVm == PrepareVm(CLH_HYP)

ClhNewDeviceManager == NewDeviceManager(CLH_HYP, "capabilities")

ClhCapabilities == Capabilities(CLH_HYP)

ClhSetupFs == SetupFs(CLH_HYP)

ClhStartVm == StartVm(CLH_HYP)

ClhGetAgentSocket == GetAgentSocket(CLH_HYP, ClhSockets, <<>>, TRUE)

ClhStopSidecar == StopSidecar(CLH_HYP)

ClhStopVm == StopVm(CLH_HYP)

(***************************************************************************)
(* qemu::setup_test_vm and qemu::stop_test_vm.                             *)
(***************************************************************************)
QemuLoadConfig == LoadConfig(QEMU_HYP)

QemuGetHypervisorConfig == GetHypervisorConfig(QEMU_HYP, BOOLEAN)

QemuPrepareVm == PrepareVm(QEMU_HYP)

QemuNewDeviceManager == NewDeviceManager(QEMU_HYP, "vsock")

\* add_vsock_device(dev_manager.clone()).await?
QemuAddVsockDevice ==
    /\ pc = <<QEMU_HYP, "vsock">>
    /\ DoHandleDevice("VsockCfg", VMADDR_CID_ANY)
    /\ \E ok \in BOOLEAN :
         IF ok
         THEN /\ Attach(NewDevice("vsock", FALSE, FALSE))
              /\ pc' = <<QEMU_HYP, "rootfs">>
              /\ UNCHANGED result
         ELSE /\ Return("Err: adding vsock device")
              /\ UNCHANGED devices
    /\ UNCHANGED <<hypervisor_name, client_result, fs_sharing, server_address,
                   hybrid_vsock, image, hv,
                   dev_manager, shared_fs_pid, virtiofsd, agent_socket,
                   test_vm, calls>>
    /\ UNCHANGED pipeVars

\* a faulty boot that attaches the boot image writable
QemuAddRootfs_Writable ==
    /\ pc = <<QEMU_HYP, "rootfs">>
    /\ IF image
       THEN /\ DoHandleDevice("BlockCfg", BootImage)
            /\ \E ok \in BOOLEAN :
                 IF ok
                 THEN /\ \E has_pci \in BOOLEAN :
                           Attach(NewDevice("Block", FALSE, has_pci))
                      /\ pc' = <<QEMU_HYP, "capabilities">>
                      /\ UNCHANGED result
                 ELSE /\ Return("Err: adding vm rootfs")
                      /\ UNCHANGED devices
       ELSE /\ pc' = <<QEMU_HYP, "capabilities">>
            /\ UNCHANGED <<devices, result, attach_log>>
    /\ UNCHANGED <<hypervisor_name, client_result, fs_sharing, server_address,
                   hybrid_vsock, image, hv,
                   dev_manager, shared_fs_pid, virtiofsd, agent_socket,
                   test_vm, calls>>
    /\ UNCHANGED pipeVars

\* if !hypervisor_config.boot_info.image.is_empty() { add_block_device(..)? }
QemuAddRootfs ==
    /\ pc = <<QEMU_HYP, "rootfs">>
    /\ IF image
       THEN /\ DoHandleDevice("BlockCfg", BootImage)
            /\ \E ok \in BOOLEAN :
                 IF ok
                 THEN /\ \E has_pci \in BOOLEAN :
                           Attach(NewDevice("Block", TRUE, has_pci))
                      /\ pc' = <<QEMU_HYP, "capabilities">>
                      /\ UNCHANGED result
                 ELSE /\ Return("Err: adding vm rootfs")
                      /\ UNCHANGED devices
       ELSE /\ pc' = <<QEMU_HYP, "capabilities">>
            /\ UNCHANGED <<devices, result, attach_log>>
    /\ UNCHANGED <<hypervisor_name, client_result, fs_sharing, server_address,
                   hybrid_vsock, image, hv,
                   dev_manager, shared_fs_pid, virtiofsd, agent_socket,
                   test_vm, calls>>
    /\ UNCHANGED pipeVars

QemuCapabilities == Capabilities(QEMU_HYP)

QemuSetupFs == SetupFs(QEMU_HYP)

QemuStartVm == StartVm(QEMU_HYP)

\* a faulty boot that returns the address as the backend reported it
QemuGetAgentSocket_NoPort == GetAgentSocket(QEMU_HYP, QemuSockets, <<>>, FALSE)

QemuGetAgentSocket == GetAgentSocket(QEMU_HYP, QemuSockets, AgentPort, FALSE)

QemuStopSidecar == StopSidecar(QEMU_HYP)

QemuStopVm == StopVm(QEMU_HYP)

(***************************************************************************)
(* rpc::run, after the boot.                                               *)
(***************************************************************************)
\* the index of the first occurrence of sep in s at or after i, 0 if none
RECURSIVE Find(_, _, _)
Find(s, sep, i) ==
    IF i + Len(sep) - 1 > Len(s) THEN 0
    ELSE IF SubSeq(s, i, i + Len(sep) - 1) = sep THEN i
    ELSE Find(s, sep, i + 1)

\* str::split(sep).collect(): the fields between the occurrences of sep
RECURSIVE Split(_, _)
Split(s, sep) ==
    LET i == Find(s, sep, 1)
    IN  IF i = 0 THEN <<s>>
        ELSE <<SubSeq(s, 1, i - 1)>> \o Split(SubSeq(s, i + Len(sep), Len(s)), sep)

\* vm::stop_test_vm(test_vm): dispatch on the stored backend name
StopTestVm(vm) ==
    /\ pc' = <<vm.hypervisor_name, "stop">>
    /\ Call("stop_test_vm")

\* a faulty override that takes the scheme field of the socket address
RunBooted_SchemeField ==
    /\ pc = <<"run", "booted">>
    /\ IF test_vm.socket_addr = <<>>
       THEN /\ StopTestVm(test_vm)
            /\ UNCHANGED <<server_address, hybrid_vsock>>
       ELSE LET addr_fields == Split(test_vm.socket_addr, SchemeSep)
            IN  /\ server_address' =
                      IF test_vm.is_hybrid_vsock
                      THEN UnixScheme \o SchemeSep \o addr_fields[1]
                      ELSE server_address
                /\ hybrid_vsock' = test_vm.is_hybrid_vsock
                /\ pc' = <<"run", "client">>
                /\ UNCHANGED calls
    /\ UNCHANGED <<hypervisor_name, client_result, fs_sharing, attach_log,
                   image, hv, dev_manager, devices, shared_fs_pid,
                   virtiofsd, agent_socket, test_vm, result>>
    /\ UNCHANGED pipeVars

\* the socket address check and the server address override
RunBooted ==
    /\ pc = <<"run", "booted">>
    /\ IF test_vm.socket_addr = <<>>
       THEN /\ StopTestVm(test_vm)
            /\ UNCHANGED <<server_address, hybrid_vsock>>
       ELSE LET addr_fields == Split(test_vm.socket_addr, SchemeSep)
            IN  /\ server_address' =
                      IF test_vm.is_hybrid_vsock
                      THEN UnixScheme \o SchemeSep \o addr_fields[2]
                      ELSE server_address
                /\ hybrid_vsock' = test_vm.is_hybrid_vsock
                /\ pc' = <<"run", "client">>
                /\ UNCHANGED calls
    /\ UNCHANGED <<hypervisor_name, client_result, fs_sharing, attach_log,
                   image, hv, dev_manager, devices, shared_fs_pid,
                   virtiofsd, agent_socket, test_vm, result>>
    /\ UNCHANGED pipeVars

\* a faulty run that returns the error of the client with `?`
ClientReturns_Propagate ==
    /\ pc = <<"run", "client">>
    /\ op = "idle"
    /\ \E r \in {Ok, "Err: client"} :
         /\ client_result' = r
         /\ IF test_vm.present /\ r = Ok
            THEN /\ StopTestVm(test_vm)
                 /\ UNCHANGED result
            ELSE /\ Return(r)
                 /\ UNCHANGED calls
    /\ UNCHANGED <<hypervisor_name, fs_sharing, attach_log, server_address,
                   hybrid_vsock, image, hv,
                   dev_manager, devices, shared_fs_pid, virtiofsd,
                   agent_socket, test_vm>>
    /\ UNCHANGED pipeVars

\* client(cfg, commands) returns, no call of the pipeline being under way:
\* its error is only logged when a VM was booted, and is run's result when
\* none was
ClientReturns ==
    /\ pc = <<"run", "client">>
    /\ op = "idle"
    /\ \E r \in {Ok, "Err: client"} :
         /\ client_result' = r
         /\ IF test_vm.present
            THEN /\ StopTestVm(test_vm)
                 /\ UNCHANGED result
            ELSE /\ Return(r)
                 /\ UNCHANGED calls
    /\ UNCHANGED <<hypervisor_name, fs_sharing, attach_log, server_address,
                   hybrid_vsock, image, hv,
                   dev_manager, devices, shared_fs_pid, virtiofsd,
                   agent_socket, test_vm>>
    /\ UNCHANGED pipeVars

(***************************************************************************)
(* The host file system and the descriptor lists given to the pipeline.    *)
(***************************************************************************)
Sources == {"/dev/loop7", "/dev/loop8", "/var/lib/testdata", "/tmp/disk.img",
            "/missing"}

\* stat::stat(path): the file type in st_mode, "none" when stat fails
Stat(path) ==
    CASE path \in {"/dev/loop7", "/dev/loop8"} -> "S_IFBLK"
      [] path = "/var/lib/testdata" -> "S_IFDIR"
      [] path = "/tmp/disk.img" -> "S_IFREG"
      [] OTHER -> "none"

\* Path::new(path).file_name()
FileName(path) ==
    CASE path = "/dev/loop7" -> "loop7"
      [] path = "/dev/loop8" -> "loop8"
      [] path = "/var/lib/testdata" -> "testdata"
      [] path = "/tmp/disk.img" -> "disk.img"
      [] OTHER -> "missing"

FsTypeOf(path) == IF path = "/dev/loop8" THEN "xfs" ELSE "ext4"

OptionsOf(path) == IF path = "/dev/loop7" THEN <<"ro">> ELSE <<"rw", "nodev">>

\* driver and source of the descriptors: each driver on the sources that
\* pass its check and on sources that fail it
DescriptorKinds ==
    {<<"blk", "/dev/loop7">>, <<"blk", "/dev/loop8">>,
     <<"blk", "/tmp/disk.img">>, <<"blk", "/missing">>,
     <<"virtio-fs", "/var/lib/testdata">>, <<"virtio-fs", "/tmp/disk.img">>,
     <<"nfs", "/var/lib/testdata">>}

\* the Storage records a descriptor list may hold
Descriptors ==
    {[driver |-> k[1], source |-> k[2], fstype |-> FsTypeOf(k[2]),
      options |-> OptionsOf(k[2]), mount_point |-> "/mnt/vol"] :
        k \in DescriptorKinds}

StorageLists ==
    UNION {[1..n -> Descriptors] : n \in 0..MaxList}

\* host_share_path, the base directory given to do_handle_storage
HostShareBases == {"/run/kata/shared"}

\* what generate_random_hex_string may return
RandomHex == {"a3f1", "7be2"}

(***************************************************************************)
(* utils.rs: path helpers.                                                 *)
(***************************************************************************)
generate_path(guest_base, id, suffix) ==
    guest_base \o "/" \o id \o "/" \o suffix

(***************************************************************************)
(* utils.rs: do_handle_storage and its two handlers.                       *)
(***************************************************************************)
InClient == pc = <<"run", "client">>

CurrentVol == inj.storages[inj.idx]

Handling(driver_set) ==
    /\ op = "inject"
    /\ inj.idx <= Len(inj.storages)
    /\ CurrentVol.driver \in driver_set

\* a handler returned Err: `?` ends do_handle_storage at this item
InjectFails(err) ==
    /\ op' = "idle"
    /\ inj_result' = err
    /\ inj' = NoInject

\* a handler returned Ok(()): the loop goes on to the next item
InjectNext ==
    /\ inj' = [inj EXCEPT !.idx = @ + 1]
    /\ UNCHANGED <<op, inj_result>>

\* File::open(list_path)? and serde_json::from_reader(file)?
DoHandleStorage ==
    /\ InClient /\ dev_manager /\ op = "idle"
    /\ n_inject < MaxInject
    /\ n_inject' = n_inject + 1
    /\ req_hist' = [req_hist EXCEPT !.clean = @ /\ req_hist.drains = 0]
    /\ \E parsed \in BOOLEAN :
         IF parsed
         THEN /\ \E list \in StorageLists, base \in HostShareBases :
                   inj' = [storages |-> list, idx |-> 1,
                           host_share_path |-> base,
                           s0 |-> Len(STORAGE_INFO),
                           m0 |-> Len(OCI_MOUNTS_INFO),
                           u0 |-> Len(UNMOUNT_HOST_INFO),
                           d0 |-> Len(devices)]
              /\ op' = "inject"
              /\ inj_result' = Pending
         ELSE /\ inj' = NoInject
              /\ inj_result' = "Err: storage list"
              /\ UNCHANGED op
    /\ UNCHANGED <<STORAGE_INFO, OCI_MOUNTS_INFO, UNMOUNT_HOST_INFO, locks,
                   mounted, bind_log, req, um_idx, um_result,
                   unmount_log, host_dirs, n_unmount>>
    /\ UNCHANGED lifeVars

\* a faulty source check that accepts whatever stat succeeds on
valid_block_vol_AnyFile(vol) == Stat(vol.source) # "none"

\* the source check of handle_block_volume
valid_block_vol(vol) == Stat(vol.source) = "S_IFBLK"

\* device.device_id if the device is a block device, String::new() otherwise
BlockDeviceId(device_info) ==
    IF device_info.kind = "Block" THEN device_info.device_id ELSE ""

\* a faulty fix that leaves the host path as the source
FixStorage_KeepSource(vol, device_info) ==
    [vol EXCEPT
       !.mount_point = generate_path(GUEST_BASE_PATH,
                                     BlockDeviceId(device_info),
                                     TEST_BLK_APPEND)]

\* "fix the storage information": the source becomes the PCI path and the
\* mount point the guest path
FixStorage(vol, device_info) ==
    [vol EXCEPT
       !.source = IF device_info.kind = "Block"
                  THEN device_info.pci_path ELSE @,
       !.mount_point = generate_path(GUEST_BASE_PATH,
                                     BlockDeviceId(device_info),
                                     TEST_BLK_APPEND)]

\* the OCI Mount generated for a block volume
BlockMount(vol, device_info) ==
    [destination |-> generate_path(CNT_MNT_BASE, BlockDeviceId(device_info),
                                   TEST_BLK_APPEND),
     type |-> vol.fstype,
     source |-> generate_path(GUEST_BASE_PATH, BlockDeviceId(device_info),
                              TEST_BLK_APPEND),
     options |-> vol.options]

\* a faulty save that forgets the mount of the volume
SaveBlockVolume_NoMount(vol, mount) ==
    /\ STORAGE_INFO' = Append(STORAGE_INFO, vol)
    /\ UNCHANGED OCI_MOUNTS_INFO

\* a faulty save that forgets the storage of the volume
SaveBlockVolume_NoStorage(vol, mount) ==
    /\ OCI_MOUNTS_INFO' = Append(OCI_MOUNTS_INFO, mount)
    /\ UNCHANGED STORAGE_INFO

\* STORAGE_INFO.lock().await.push(vol); OCI_MOUNTS_INFO.lock().await.push(mount)
SaveBlockVolume(vol, mount) ==
    /\ STORAGE_INFO' = Append(STORAGE_INFO, vol)
    /\ OCI_MOUNTS_INFO' = Append(OCI_MOUNTS_INFO, mount)

\* a faulty handler that takes a missing PCI path for an empty one
HandleBlockVolume_NoPciCheck ==
    /\ Handling({"blk"})
    /\ IF ~valid_block_vol(CurrentVol)
       THEN /\ InjectFails("Not a block special file: " \o CurrentVol.source)
            /\ UNCHANGED <<devices, STORAGE_INFO, OCI_MOUNTS_INFO, attach_log>>
       ELSE \E attached \in BOOLEAN, has_pci \in BOOLEAN :
              LET device_info == NewDevice("Block", FALSE, has_pci)
              IN  /\ DoHandleDevice("BlockCfg", CurrentVol.source)
                  /\ IF ~attached
                     THEN /\ InjectFails("Err: do handle device failed.")
                          /\ UNCHANGED <<devices, STORAGE_INFO,
                                         OCI_MOUNTS_INFO>>
                     ELSE /\ Attach(device_info)
                          /\ SaveBlockVolume(
                               FixStorage(CurrentVol, device_info),
                               BlockMount(CurrentVol, device_info))
                          /\ InjectNext
    /\ UNCHANGED <<UNMOUNT_HOST_INFO, locks, n_inject, mounted, bind_log, req,
                   um_idx, um_result, unmount_log, host_dirs,
                   n_unmount, req_hist>>
    /\ UNCHANGED <<pc, hypervisor_name, client_result,
                   fs_sharing, server_address,
                   hybrid_vsock, image,
                   hv, dev_manager, shared_fs_pid, virtiofsd, agent_socket,
                   test_vm, calls, result>>

\* handle_block_volume(&dev_mgr, storage.clone()).await?
HandleBlockVolume ==
    /\ Handling({"blk"})
    /\ IF ~valid_block_vol(CurrentVol)
       THEN /\ InjectFails("Not a block special file: " \o CurrentVol.source)
            /\ UNCHANGED <<devices, STORAGE_INFO, OCI_MOUNTS_INFO, attach_log>>
       ELSE \E attached \in BOOLEAN, has_pci \in BOOLEAN :
              LET device_info == NewDevice("Block", FALSE, has_pci)
              IN  /\ DoHandleDevice("BlockCfg", CurrentVol.source)
                  /\ IF ~attached
                     THEN /\ InjectFails("Err: do handle device failed.")
                          /\ UNCHANGED <<devices, STORAGE_INFO,
                                         OCI_MOUNTS_INFO>>
                     ELSE /\ Attach(device_info)
                          /\ IF /\ device_info.kind = "Block"
                                /\ device_info.pci_path = NoPci
                             THEN /\ InjectFails(
                                    "block driver is blk but no pci path exists")
                                  /\ UNCHANGED <<STORAGE_INFO,
                                                 OCI_MOUNTS_INFO>>
                             ELSE /\ SaveBlockVolume(
                                       FixStorage(CurrentVol, device_info),
                                       BlockMount(CurrentVol, device_info))
                                  /\ InjectNext
    /\ UNCHANGED <<UNMOUNT_HOST_INFO, locks, n_inject, mounted, bind_log, req,
                   um_idx, um_result, unmount_log, host_dirs,
                   n_unmount, req_hist>>
    /\ UNCHANGED <<pc, hypervisor_name, client_result,
                   fs_sharing, server_address,
                   hybrid_vsock, image,
                   hv, dev_manager, shared_fs_pid, virtiofsd, agent_socket,
                   test_vm, calls, result>>

\* the source check of handle_shared_volume
valid_share_vol(vol) == Stat(vol.source) = "S_IFDIR"

\* host_base_path + "/" + random_str + "-" + file_name
HostSharePath(host_base_path, random_str, file_name) ==
    host_base_path \o "/" \o random_str \o "-" \o file_name

\* the OCI Mount generated for a shared volume
SharedMount(vol, random_str, file_name) ==
    [destination |-> CNT_MNT_BASE,
     type |-> vol.fstype,
     source |-> GUEST_SHARED_PATH \o "/" \o random_str \o "-" \o file_name,
     options |-> vol.options]

\* a faulty save that inserts the mount at the front of the mount cache
SaveSharedVolume_Front(mount, host_share_path) ==
    /\ OCI_MOUNTS_INFO' = <<mount>> \o OCI_MOUNTS_INFO
    /\ UNMOUNT_HOST_INFO' = Append(UNMOUNT_HOST_INFO, host_share_path)

\* a faulty save that forgets the host path to unmount
SaveSharedVolume_NoUnmount(mount, host_share_path) ==
    /\ OCI_MOUNTS_INFO' = Append(OCI_MOUNTS_INFO, mount)
    /\ UNCHANGED UNMOUNT_HOST_INFO

\* OCI_MOUNTS_INFO.lock().await.push(mount);
\* UNMOUNT_HOST_INFO.lock().await.push(host_share_path)
SaveSharedVolume(mount, host_share_path) ==
    /\ OCI_MOUNTS_INFO' = Append(OCI_MOUNTS_INFO, mount)
    /\ UNMOUNT_HOST_INFO' = Append(UNMOUNT_HOST_INFO, host_share_path)

\* mount::bind_mount_unchecked(src, dst, true, MS_SLAVE) succeeded: dst is
\* created if missing and src is mounted on it
BindMount(dst) ==
    /\ mounted' = Append(mounted, dst)
    /\ bind_log' = Append(bind_log, dst)
    /\ host_dirs' = host_dirs \cup {dst}

\* handle_shared_volume(storage.clone(), host_share_path.clone()).await?
HandleSharedVolume ==
    /\ Handling({"virtio-fs"})
    /\ IF ~valid_share_vol(CurrentVol)
       THEN /\ InjectFails("Shared volume is not a valid directory")
            /\ UNCHANGED <<OCI_MOUNTS_INFO, UNMOUNT_HOST_INFO, mounted,
                           bind_log, host_dirs>>
       ELSE \E random_str \in RandomHex, bound \in BOOLEAN :
              LET file_name == FileName(CurrentVol.source)
                  host_share_path == HostSharePath(inj.host_share_path,
                                                   random_str, file_name)
              IN  IF ~bound
                  THEN /\ InjectFails("Err: failed to bind mount")
                       /\ UNCHANGED <<OCI_MOUNTS_INFO, UNMOUNT_HOST_INFO,
                                      mounted, bind_log, host_dirs>>
                  ELSE /\ BindMount(host_share_path)
                       /\ SaveSharedVolume(
                            SharedMount(CurrentVol, random_str, file_name),
                            host_share_path)
                       /\ InjectNext
    /\ UNCHANGED <<STORAGE_INFO, locks, n_inject, req, um_idx,
                   um_result, unmount_log, n_unmount, req_hist>>
    /\ UNCHANGED lifeVars

\* a faulty dispatch that skips a descriptor of an unsupported driver
HandleUnsupported_Skip ==
    /\ op = "inject"
    /\ inj.idx <= Len(inj.storages)
    /\ CurrentVol.driver \notin {"blk", "virtio-fs"}
    /\ InjectNext
    /\ UNCHANGED <<STORAGE_INFO, OCI_MOUNTS_INFO, UNMOUNT_HOST_INFO, locks,
                   n_inject, mounted, bind_log, req, um_idx,
                   um_result, unmount_log, host_dirs, n_unmount, req_hist>>
    /\ UNCHANGED lifeVars

\* _ => return Err(anyhow!("{} storage type is not supported", driver))
HandleUnsupported ==
    /\ op = "inject"
    /\ inj.idx <= Len(inj.storages)
    /\ CurrentVol.driver \notin {"blk", "virtio-fs"}
    /\ InjectFails(CurrentVol.driver \o " storage type is not supported")
    /\ UNCHANGED <<STORAGE_INFO, OCI_MOUNTS_INFO, UNMOUNT_HOST_INFO, locks,
                   n_inject, mounted, bind_log, req, um_idx,
                   um_result, unmount_log, host_dirs, n_unmount, req_hist>>
    /\ UNCHANGED lifeVars

\* the list is exhausted: Ok(())
DoHandleStorageReturns ==
    /\ op = "inject"
    /\ inj.idx > Len(inj.storages)
    /\ op' = "idle"
    /\ inj_result' = Ok
    /\ inj' = NoInject
    /\ UNCHANGED <<STORAGE_INFO, OCI_MOUNTS_INFO, UNMOUNT_HOST_INFO, locks,
                   n_inject, mounted, bind_log, req, um_idx,
                   um_result, unmount_log, host_dirs, n_unmount, req_hist>>
    /\ UNCHANGED lifeVars

(***************************************************************************)
(* utils.rs: append_storages_and_mounts.                                   *)
(***************************************************************************)
\* for x in cache.lock().await.iter() { list.push(x.clone()) }
RECURSIVE PushAll(_, _, _)
PushAll(list, cache, i) ==
    IF i > Len(cache) THEN list
    ELSE PushAll(Append(list, cache[i]), cache, i + 1)

\* do_append_storage_and_mounts(req): what it leaves in req
AppendedRequest(r) ==
    [storages |-> PushAll(r.storages, STORAGE_INFO, 1),
     mounts |-> PushAll(r.mounts, OCI_MOUNTS_INFO, 1)]

\* a faulty drain that takes the entries out of the caches
DrainedCaches_Taken == <<<<>>, <<>>>>

\* do_append_storage_and_mounts(req): what it leaves in the two caches
DrainedCaches == <<STORAGE_INFO, OCI_MOUNTS_INFO>>

AppendStoragesAndMounts ==
    /\ InClient /\ op = "idle"
    /\ req_hist.drains < MaxDrain
    /\ req' = AppendedRequest(req)
    /\ STORAGE_INFO' = DrainedCaches[1]
    /\ OCI_MOUNTS_INFO' = DrainedCaches[2]
    /\ req_hist' = [req_hist EXCEPT !.drains = @ + 1]
    /\ UNCHANGED <<UNMOUNT_HOST_INFO, locks, op, inj, inj_result, n_inject,
                   mounted, bind_log, um_idx, um_result, unmount_log,
                   host_dirs, n_unmount>>
    /\ UNCHANGED lifeVars

\* the client builds the next CreateContainerRequest
NewRequest ==
    /\ InClient /\ op = "idle"
    /\ req # EmptyRequest
    /\ req' = EmptyRequest
    /\ req_hist' = [drains |-> 0, clean |-> TRUE]
    /\ UNCHANGED <<STORAGE_INFO, OCI_MOUNTS_INFO, UNMOUNT_HOST_INFO, locks, op,
                   inj, inj_result, n_inject, mounted, bind_log, um_idx, um_result, unmount_log, host_dirs, n_unmount>>
    /\ UNCHANGED lifeVars

(***************************************************************************)
(* utils.rs: unmount_shares / do_unmount.                                  *)
(***************************************************************************)
IsMounted(path) == \E i \in 1..Len(mounted) : mounted[i] = path

\* umount(path) succeeded: the topmost mount on path is gone
RECURSIVE RemoveLast(_, _)
RemoveLast(seq, x) ==
    IF seq = <<>> THEN <<>>
    ELSE IF seq[Len(seq)] = x THEN SubSeq(seq, 1, Len(seq) - 1)
    ELSE Append(RemoveLast(SubSeq(seq, 1, Len(seq) - 1), x), seq[Len(seq)])

\* unmount_shares(): the guard of UNMOUNT_HOST_INFO.lock() lives as long as
\* the for loop over its iterator
UnmountShares ==
    /\ InClient /\ op = "idle"
    /\ n_unmount < MaxUnmount
    /\ n_unmount' = n_unmount + 1
    /\ op' = "unmount"
    /\ um_idx' = 1
    /\ um_result' = Pending
    /\ locks' = locks \cup {"UNMOUNT_HOST_INFO"}
    /\ UNCHANGED <<STORAGE_INFO, OCI_MOUNTS_INFO, UNMOUNT_HOST_INFO, inj,
                   inj_result, n_inject, mounted, bind_log, req, unmount_log, host_dirs, req_hist>>
    /\ UNCHANGED lifeVars

\* `?` in the loop body: do_unmount returns the error
UnmountFails(err) ==
    /\ op' = "idle"
    /\ um_result' = err
    /\ locks' = locks \ {"UNMOUNT_HOST_INFO"}
    /\ UNCHANGED um_idx

\* the loop body ran through: on to the next host_share
UnmountNext ==
    /\ um_idx' = um_idx + 1
    /\ UNCHANGED <<op, um_result, locks>>

\* one iteration of the loop of do_unmount: umount_timeout(host_share, 0)?,
\* then remove_dir(host_share)? if it is still a directory
DoUnmountStep ==
    /\ op = "unmount"
    /\ um_idx <= Len(UNMOUNT_HOST_INFO)
    /\ LET host_share == UNMOUNT_HOST_INFO[um_idx]
       IN  /\ unmount_log' = Append(unmount_log, host_share)
           /\ \E unmounted \in IF IsMounted(host_share) THEN BOOLEAN
                                                      ELSE {FALSE} :
                IF ~unmounted
                THEN /\ UnmountFails("Err: unshare mounts")
                     /\ UNCHANGED <<mounted, host_dirs>>
                ELSE /\ mounted' = RemoveLast(mounted, host_share)
                     /\ IF host_share \in host_dirs
                        THEN \E rm \in IF \E i \in 1..Len(mounted') :
                                             mounted'[i] = host_share
                                       THEN {FALSE} ELSE BOOLEAN :
                               IF rm
                               THEN /\ host_dirs' = host_dirs \ {host_share}
                                    /\ UnmountNext
                               ELSE /\ UnmountFails(
                                         "Err: failed to remove directory from host")
                                    /\ UNCHANGED host_dirs
                        ELSE /\ UnmountNext
                             /\ UNCHANGED host_dirs
    /\ UNCHANGED <<STORAGE_INFO, OCI_MOUNTS_INFO, UNMOUNT_HOST_INFO, inj,
                   inj_result, n_inject, bind_log, req, n_unmount,
                   req_hist>>
    /\ UNCHANGED lifeVars

\* the loop is over: Ok(())
DoUnmountReturns ==
    /\ op = "unmount"
    /\ um_idx > Len(UNMOUNT_HOST_INFO)
    /\ op' = "idle"
    /\ um_result' = Ok
    /\ locks' = locks \ {"UNMOUNT_HOST_INFO"}
    /\ UNCHANGED <<STORAGE_INFO, OCI_MOUNTS_INFO, UNMOUNT_HOST_INFO, inj,
                   inj_result, n_inject, mounted, bind_log, req, um_idx, unmount_log, host_dirs, n_unmount, req_hist>>
    /\ UNCHANGED lifeVars

(***************************************************************************)
(* The run of the harness: rpc::run from its entry to its return.          *)
(***************************************************************************)
Next ==
    \/ RunStart
    \/ ClhLoadConfig \/ ClhGetHypervisorConfig \/ ClhPrepareVm
    \/ ClhNewDeviceManager \/ ClhCapabilities \/ ClhSetupFs \/ ClhStartVm
    \/ ClhGetAgentSocket \/ ClhStopSidecar \/ ClhStopVm
    \/ QemuLoadConfig \/ QemuGetHypervisorConfig \/ QemuPrepareVm
    \/ QemuNewDeviceManager \/ QemuAddVsockDevice \/ QemuAddRootfs
    \/ QemuCapabilities \/ QemuSetupFs \/ QemuStartVm
    \/ QemuGetAgentSocket \/ QemuStopSidecar \/ QemuStopVm
    \/ RunBooted \/ ClientReturns

Spec == Init /\ [][Next]_vars

(***************************************************************************)
(* The storage pipeline: its entry points called in any order by the       *)
(* client, on the device manager of a VM that clh::setup_test_vm booted    *)
(* with or without the shared-fs sidecar.                                  *)
(***************************************************************************)
ClhBootCalls(with_fs) ==
    <<"set_hypervisor_config", "prepare_vm", "DeviceManager::new",
      "capabilities">>
    \o (IF with_fs THEN <<"setup_virtio_fs">> ELSE <<>>)
    \o <<"start_vm", "get_agent_socket">>

InitStorage ==
    /\ PipeInit
    /\ pc = <<"run", "client">>
    /\ hypervisor_name = CLH_HYP
    /\ agent_socket \in ClhSockets \ {<<>>}
    /\ server_address = UnixScheme \o SchemeSep \o Split(agent_socket, SchemeSep)[2]
    /\ hybrid_vsock = TRUE
    /\ image = FALSE
    /\ hv = "running"
    /\ dev_manager = TRUE
    /\ \E with_fs \in {TRUE} :
         /\ devices = IF with_fs
                      THEN <<[kind |-> "share_fs", readonly |-> FALSE,
                              device_id |-> DeviceId(1), pci_path |-> NoPci]>>
                      ELSE <<>>
         /\ shared_fs_pid \in (IF with_fs THEN SidecarPids ELSE {0})
         /\ virtiofsd = IF with_fs THEN "running" ELSE "none"
         /\ calls = ClhBootCalls(with_fs)
         /\ fs_sharing = IF with_fs THEN "yes" ELSE "no"
         /\ attach_log = IF with_fs
                         THEN <<AttachEvent("call", "ShareFsCfg", ""),
                                AttachEvent("return", "ShareFsCfg", "")>>
                         ELSE <<>>
    /\ test_vm = [present |-> TRUE, hypervisor_name |-> CLH_HYP,
                  socket_addr |-> agent_socket, is_hybrid_vsock |-> TRUE,
                  shared_fs_pid |-> shared_fs_pid]
    /\ result = Pending
    /\ client_result = Pending

NextStorage ==
    \/ DoHandleStorage \/ HandleBlockVolume \/ HandleSharedVolume
    \/ HandleUnsupported \/ DoHandleStorageReturns
    \/ AppendStoragesAndMounts \/ NewRequest
    \/ UnmountShares \/ DoUnmountStep \/ DoUnmountReturns

SpecStorage == InitStorage /\ [][NextStorage]_vars

(***************************************************************************)
(* rpc::run with a client that calls do_handle_storage: the boot of either *)
(* backend, the injection of storage lists on the VM it returned, and the  *)
(* shutdown.                                                               *)
(***************************************************************************)
NextInject ==
    \/ DoHandleStorage \/ HandleBlockVolume \/ HandleSharedVolume
    \/ HandleUnsupported \/ DoHandleStorageReturns

SpecBootInject == Init /\ [][Next \/ NextInject]_vars

\* the states the pipeline starts in are states rpc::run reaches
InitStorageReached ==
    /\ pc = <<"run", "client">>
    /\ hypervisor_name = CLH_HYP
    /\ hv = "running" /\ dev_manager /\ test_vm.present
    /\ calls = ClhBootCalls(shared_fs_pid > 0)
    /\ Len(devices) = IF shared_fs_pid > 0 THEN 1 ELSE 0

(***************************************************************************)
(* Claims about the VM lifecycle, checked under Spec.                      *)
(***************************************************************************)
Done == pc = <<"run", "done">>

\* C1: in every execution of shutdown (stop_test_vm was entered for a booted
\* VM and has returned), stop_vm was invoked, whatever the outcome of the
\* sidecar shutdown.
C1_StopVmAlwaysAttempted ==
    (Done /\ test_vm.present) => Called("stop_vm")

\* C3: when boot fails at prepare_vm or start_vm, no run ends with a started
\* sidecar for which no stop was ever attempted.
C3_TeardownAfterFailedBoot ==
    (/\ Done
     /\ result \in {"Err: prepare test vm", "Err: start vm"}
     /\ virtiofsd = "running")
    => Called("shutdown_virtiofsd")

CalledBefore(a, b) ==
    \A i, j \in 1..Len(calls) :
        (calls[i] = a /\ calls[j] = b) => i < j

\* C12: the sidecar is set up only when the backend answered that it shares
\* file systems, and then before start_vm; when the capability query or the
\* sidecar setup fails, start_vm is not called in that boot.
C12_SidecarBeforeStart ==
    /\ Called("setup_virtio_fs") => fs_sharing = "yes"
    /\ virtiofsd # "none" => fs_sharing = "yes"
    /\ (fs_sharing = "yes" /\ Called("start_vm")) => Called("setup_virtio_fs")
    /\ CalledBefore("capabilities", "setup_virtio_fs")
    /\ CalledBefore("setup_virtio_fs", "start_vm")
    /\ result \in {"Err: capabilities", "Err: setup virtio fs"}
         => /\ ~Called("start_vm")
            /\ hv \notin {"running", "start_failed", "stopped"}

\* C12 witness: a boot set the sidecar up and then started the VM
C12_Witness ==
    /\ fs_sharing = "yes" /\ virtiofsd = "running"
    /\ Called("setup_virtio_fs") /\ Called("start_vm") /\ hv = "running"

IsCall(e) == e.ev = "call"

\* the calls of do_handle_device, in the order they were made
Issued == SelectSeq(attach_log, IsCall)

CountCfg(cfg) == Cardinality({i \in 1..Len(Issued) : Issued[i].cfg = cfg})

CountKind(kind) ==
    Cardinality({i \in 1..Len(devices) : devices[i].kind = kind})

\* C13: on Qemu, when start_vm is called the boot has made exactly one
\* attach of a vsock device with guest CID any, as its first attach, and,
\* exactly when the boot image is not empty, one attach of that image as a
\* read-only block device, as its second; when one of these attaches fails
\* start_vm is not called.  On Cloud-Hypervisor no vsock device is attached
\* and the TestVm returned is hybrid-vsock.
C13_QemuBootDevices ==
    /\ (hypervisor_name = QEMU_HYP /\ Called("start_vm")) =>
          /\ CountCfg("VsockCfg") = 1 /\ CountKind("vsock") = 1
          /\ Issued[1] = AttachEvent("call", "VsockCfg", "VMADDR_CID_ANY")
          /\ devices[1].kind = "vsock"
          /\ image =>
                /\ CountCfg("BlockCfg") = 1 /\ CountKind("Block") = 1
                /\ Issued[2] = AttachEvent("call", "BlockCfg", BootImage)
                /\ devices[2].kind = "Block" /\ devices[2].readonly
          /\ ~image => (CountCfg("BlockCfg") = 0 /\ CountKind("Block") = 0)
    /\ (hypervisor_name = QEMU_HYP /\ test_vm.present) => Called("start_vm")
    /\ result \in {"Err: adding vsock device", "Err: adding vm rootfs"}
         => /\ ~Called("start_vm")
            /\ hv \notin {"running", "start_failed", "stopped"}
    /\ hypervisor_name = CLH_HYP =>
          /\ CountCfg("VsockCfg") = 0 /\ CountCfg("HybridVsockCfg") = 0
          /\ CountKind("vsock") = 0
          /\ test_vm.present => test_vm.is_hybrid_vsock

\* C13 witness: a Qemu VM was booted from an image
C13_Witness ==
    /\ hypervisor_name = QEMU_HYP /\ image /\ test_vm.present
    /\ Called("start_vm") /\ Len(devices) >= 2

\* the number of occurrences of sep in s at or after i
RECURSIVE Occurrences(_, _, _)
Occurrences(s, sep, i) ==
    IF i + Len(sep) - 1 > Len(s) THEN 0
    ELSE (IF SubSeq(s, i, i + Len(sep) - 1) = sep THEN 1 ELSE 0)
         + Occurrences(s, sep, i + 1)

\* C14: the socket address of the TestVm a boot returned is, on Qemu, an
\* address the backend may report followed by ":1024", with ":1024" in it
\* once more than in the reported address, and, on Cloud-Hypervisor, an
\* address the backend may report, as reported.
C14_SocketAddress ==
    test_vm.present =>
        /\ test_vm.hypervisor_name = QEMU_HYP =>
              /\ ~test_vm.is_hybrid_vsock
              /\ \E addr \in QemuSockets :
                    /\ test_vm.socket_addr = addr \o <<":", "1", "0", "2", "4">>
                    /\ Occurrences(test_vm.socket_addr,
                                   <<":", "1", "0", "2", "4">>, 1)
                         = Occurrences(addr, <<":", "1", "0", "2", "4">>, 1) + 1
        /\ test_vm.hypervisor_name = CLH_HYP =>
              /\ test_vm.is_hybrid_vsock
              /\ test_vm.socket_addr \in ClhSockets

\* C14 witness: a Qemu boot returned the address vsock://3:1024
C14_Witness ==
    /\ test_vm.present /\ test_vm.hypervisor_name = QEMU_HYP
    /\ test_vm.socket_addr =
         <<"v", "s", "o", "c", "k", ":", "/", "/", "3", ":", "1", "0", "2", "4">>

\* what follows the first "://" of an address
PathPart(addr) ==
    SubSeq(addr, Find(addr, <<":", "/", "/">>, 1) + 3, Len(addr))

\* C15: when run is about to call the client for a booted VM, the server
\* address is "unix://" followed by the path part of the VM's socket address
\* if the VM is hybrid-vsock and is the address given on the command line
\* if it is not, and cfg.hybrid_vsock is the flag of the VM.
C15_ServerAddressOverride ==
    (pc = <<"run", "client">> /\ test_vm.present) =>
        /\ test_vm.is_hybrid_vsock =>
              server_address = <<"u", "n", "i", "x", ":", "/", "/">>
                                 \o PathPart(test_vm.socket_addr)
        /\ ~test_vm.is_hybrid_vsock => server_address \in ServerAddresses
        /\ hybrid_vsock = test_vm.is_hybrid_vsock

\* C15 witness: the client is about to be called for a Cloud-Hypervisor VM
\* with the server address unix:///c
C15_Witness ==
    /\ pc = <<"run", "client">> /\ test_vm.present
    /\ test_vm.is_hybrid_vsock /\ hybrid_vsock
    /\ server_address = <<"u", "n", "i", "x", ":", "/", "/", "/", "c">>

\* stop_test_vm is past its sidecar step
PastSidecarStep ==
    \/ pc \in {<<CLH_HYP, "stop_vm">>, <<QEMU_HYP, "stop_vm">>}
    \/ (Done /\ test_vm.present)

\* C16: once stop_test_vm is past its sidecar step, shutdown_virtiofsd has
\* been called exactly when the sidecar record of the TestVm has a nonzero
\* process identity, and never before that step; with a zero identity the
\* step changes nothing and the run ends with stop_vm called.
C16_SidecarShutdownIffRecorded ==
    /\ PastSidecarStep =>
          (Called("shutdown_virtiofsd") <=> test_vm.shared_fs_pid # 0)
    /\ ~PastSidecarStep => ~Called("shutdown_virtiofsd")
    /\ (PastSidecarStep /\ test_vm.shared_fs_pid = 0) =>
          /\ virtiofsd = "none"
          /\ Done => Called("stop_vm")

\* C16 witness: a VM booted without a sidecar was shut down
C16_Witness ==
    /\ Done /\ test_vm.present /\ test_vm.shared_fs_pid = 0
    /\ ~Called("shutdown_virtiofsd") /\ Called("stop_vm")

\* the state of the VM lifecycle: 0 Unconfigured, 1 Configured,
\* 2 DevicesAttached, 3 Running, 4 Stopped
LifecycleState ==
    CASE hv = "stopped" -> 4
      [] hv = "running" -> 3
      [] hv \in {"prepared", "start_failed"} /\ dev_manager -> 2
      [] hv \in {"configured", "prepared"} -> 1
      [] OTHER -> 0

TimesCalled(name) == Cardinality({i \in 1..Len(calls) : calls[i] = name})

\* the call named a, if made, was made after a call named b
CalledOnlyAfter(a, b) ==
    \A i \in 1..Len(calls) :
        calls[i] = a => \E j \in 1..(i - 1) : calls[j] = b

\* C20: the lifecycle state of the VM never goes back and never skips a
\* state; set_hypervisor_config comes before prepare_vm, prepare_vm before
\* the construction of the device manager, that before every boot-time
\* attach and the sidecar setup, all of these before start_vm, start_vm
\* before get_agent_socket; stop_vm is called only for a TestVm that boot
\* returned; no call is made twice.
C20_LifecycleForward ==
    /\ [][LifecycleState' \in {LifecycleState, LifecycleState + 1}]_vars
    /\ [](/\ CalledOnlyAfter("prepare_vm", "set_hypervisor_config")
          /\ CalledOnlyAfter("DeviceManager::new", "prepare_vm")
          /\ CalledOnlyAfter("capabilities", "DeviceManager::new")
          /\ CalledOnlyAfter("setup_virtio_fs", "capabilities")
          /\ CalledOnlyAfter("start_vm", "capabilities")
          /\ CalledBefore("setup_virtio_fs", "start_vm")
          /\ CalledOnlyAfter("get_agent_socket", "start_vm")
          /\ CalledOnlyAfter("stop_vm", "get_agent_socket")
          /\ Called("stop_vm") => (test_vm.present /\ LifecycleState >= 3)
          /\ test_vm.present => Called("get_agent_socket")
          /\ \A i \in 1..Len(calls) : TimesCalled(calls[i]) = 1)
    /\ [][attach_log' # attach_log =>
            /\ dev_manager /\ Called("DeviceManager::new")
            /\ ~Called("start_vm") /\ LifecycleState' = 2]_vars

\* C20 witness: a Qemu VM went through every state, from its configuration
\* to its stop, with two boot-time attaches and a sidecar
C20_Witness ==
    /\ Done /\ hypervisor_name = QEMU_HYP /\ LifecycleState = 4
    /\ Len(devices) = 3 /\ Called("setup_virtio_fs") /\ Called("stop_vm")

\* the results vm::stop_test_vm can give
StopResults == {Ok, "Err: shutdown virtiofsd", "Err: stop vm"}

InStop == pc[2] \in {"stop", "stop_vm"}

\* C24: in run with a hypervisor name, once boot has returned a TestVm,
\* vm::stop_test_vm is invoked exactly once on every path: right after the
\* boot when the socket address is empty, the client being then never
\* invoked, and right after the client returns, whether it succeeded or
\* failed; the error of the client is not run's result, which is the result
\* of the stop.
C24_StopExactlyOnce ==
    /\ [](/\ TimesCalled("stop_test_vm") <= 1
          /\ Called("stop_test_vm") => test_vm.present
          /\ (test_vm.present /\ (Done \/ InStop)) =>
                TimesCalled("stop_test_vm") = 1
          /\ (test_vm.present /\ test_vm.socket_addr = <<>>) =>
                (client_result = Pending /\ pc # <<"run", "client">>)
          /\ (test_vm.present /\ test_vm.socket_addr # <<>>) =>
                (Called("stop_test_vm") <=> client_result # Pending)
          /\ (test_vm.present /\ Done) =>
                /\ result \in StopResults
                /\ result = Ok <=> hv = "stopped")
    /\ [][(test_vm.present /\ pc = <<"run", "client">> /\ pc' # pc) =>
            /\ calls' = Append(calls, "stop_test_vm")
            /\ pc' = <<test_vm.hypervisor_name, "stop">>
            /\ result' = Pending]_vars
    /\ [][(test_vm.present /\ Done') => (Done \/ InStop)]_vars

\* C24 witness: the client failed, the VM was stopped once and run
\* returned Ok
C24_Witness ==
    /\ Done /\ test_vm.present /\ client_result = "Err: client"
    /\ TimesCalled("stop_test_vm") = 1 /\ Called("stop_vm")
    /\ result = Ok

(***************************************************************************)
(* Claims about the storage pipeline, checked under SpecStorage.           *)
(***************************************************************************)
IsPrefix(a, b) == Len(a) <= Len(b) /\ SubSeq(b, 1, Len(a)) = a

\* the sequence s repeated n times
RECURSIVE Rep(_, _)
Rep(s, n) == IF n = 0 THEN <<>> ELSE s \o Rep(s, n - 1)

\* the number of the first n descriptors of list that have this driver
CountDriver(list, n, driver) ==
    Cardinality({k \in 1..n : list[k].driver = driver})

\* C2: the call of unmount_shares returns only after the unmount of every
\* path of the pending-unmount cache has been attempted.
C2_EveryPathAttempted ==
    [][(op = "unmount" /\ op' = "idle")
         => um_idx >= Len(UNMOUNT_HOST_INFO)]_vars

\* C4: a call of append_storages_and_mounts leaves the storage cache and the
\* mount cache as they were and appends their entries, in cache order, to the
\* request; after n calls on one request with no call of do_handle_storage
\* since the first, the request holds the entries of the caches n times.
C4_DrainReadsOnly ==
    /\ [][(req_hist'.drains = req_hist.drains + 1) =>
            /\ STORAGE_INFO' = STORAGE_INFO
            /\ OCI_MOUNTS_INFO' = OCI_MOUNTS_INFO
            /\ req'.storages = req.storages \o STORAGE_INFO
            /\ req'.mounts = req.mounts \o OCI_MOUNTS_INFO]_vars
    /\ [](req_hist.clean =>
            /\ req.storages = Rep(STORAGE_INFO, req_hist.drains)
            /\ req.mounts = Rep(OCI_MOUNTS_INFO, req_hist.drains))

\* C4 witness: two drains into one request, of caches that are not empty
C4_Witness ==
    /\ req_hist.drains = 2 /\ req_hist.clean
    /\ Len(STORAGE_INFO) >= 1 /\ Len(OCI_MOUNTS_INFO) >= 2
    /\ Len(req.mounts) = 2 * Len(OCI_MOUNTS_INFO)

\* the mount m is the one derived from the descriptor d
DerivedFrom(m, d) ==
    /\ m.type = d.fstype
    /\ m.options = d.options
    /\ d.driver = "blk" =>
         \E j \in 1..Len(devices) :
            /\ devices[j].kind = "Block"
            /\ m.destination =
                 "/tmp/foo/" \o devices[j].device_id \o "/test-blk-vol"
    /\ d.driver = "virtio-fs" =>
         /\ m.destination = "/tmp/foo"
         /\ \E r \in RandomHex :
              m.source = "/run/kata-containers/shared/containers/" \o r
                           \o "-" \o FileName(d.source)

\* C5: while do_handle_storage works through a list, and when it has worked
\* through all of it, the mounts it appended to the mount cache are the
\* mounts of the descriptors handled so far, in the order of the list, after
\* the entries of earlier calls; no step reorders or drops an entry.
C5_MountOrder ==
    /\ [](op = "inject" =>
            /\ Len(OCI_MOUNTS_INFO) = inj.m0 + inj.idx - 1
            /\ \A k \in 1..(inj.idx - 1) :
                 DerivedFrom(OCI_MOUNTS_INFO[inj.m0 + k], inj.storages[k]))
    /\ [][IsPrefix(OCI_MOUNTS_INFO, OCI_MOUNTS_INFO')]_vars

\* C5 witness: the second call has worked through a list of a block and a
\* shared-directory descriptor, after a first call that left mounts
C5_Witness ==
    /\ op = "inject" /\ n_inject = 2 /\ inj.m0 >= 1
    /\ Len(inj.storages) = 2 /\ inj.idx = 3
    /\ inj.storages[1].driver = "blk"
    /\ inj.storages[2].driver = "virtio-fs"

\* C6: at a descriptor whose driver is neither blk nor virtio-fs,
\* do_handle_storage returns an error naming that driver and handles no
\* later descriptor; what the earlier descriptors of the call attached and
\* cached stays: the caches and the devices are as before that descriptor.
C6_UnsupportedDriver ==
    [][(/\ op = "inject"
        /\ inj.idx <= Len(inj.storages)
        /\ CurrentVol.driver \notin {"blk", "virtio-fs"})
       => /\ op' = "idle"
          /\ inj_result' = CurrentVol.driver \o " storage type is not supported"
          /\ STORAGE_INFO' = STORAGE_INFO
          /\ OCI_MOUNTS_INFO' = OCI_MOUNTS_INFO
          /\ UNMOUNT_HOST_INFO' = UNMOUNT_HOST_INFO
          /\ devices' = devices
          /\ Len(OCI_MOUNTS_INFO') = inj.m0 + inj.idx - 1
          /\ Len(STORAGE_INFO') =
               inj.s0 + CountDriver(inj.storages, inj.idx - 1, "blk")
          /\ Len(devices') =
               inj.d0 + CountDriver(inj.storages, inj.idx - 1, "blk")
          /\ Len(UNMOUNT_HOST_INFO') =
               inj.u0 + CountDriver(inj.storages, inj.idx - 1, "virtio-fs")
      ]_vars

\* C6 witness: the first call failed at an nfs descriptor after it had
\* attached and cached a block volume
C6_Witness ==
    /\ op = "idle" /\ n_inject = 1
    /\ inj_result = "nfs storage type is not supported"
    /\ Len(STORAGE_INFO) = 1 /\ Len(OCI_MOUNTS_INFO) = 1
    /\ Len(devices) = 2

\* C7: at a blk descriptor whose source is a regular file or a missing path,
\* do_handle_storage fails with "Not a block special file", attaches no
\* device and adds no entry to the storage cache or to the mount cache.
C7_NotBlockSpecial ==
    [][(/\ op = "inject"
        /\ inj.idx <= Len(inj.storages)
        /\ CurrentVol.driver = "blk"
        /\ CurrentVol.source \in {"/tmp/disk.img", "/missing"})
       => /\ op' = "idle"
          /\ inj_result' = "Not a block special file: " \o CurrentVol.source
          /\ devices' = devices
          /\ STORAGE_INFO' = STORAGE_INFO
          /\ OCI_MOUNTS_INFO' = OCI_MOUNTS_INFO
      ]_vars

\* C7 witness: a call failed at a blk descriptor naming a regular file
C7_Witness ==
    /\ op = "idle"
    /\ inj_result = "Not a block special file: /tmp/disk.img"

\* a step of handle_block_volume on a block special source whose attach
\* succeeded
BlockAttached ==
    /\ op = "inject"
    /\ inj.idx <= Len(inj.storages)
    /\ CurrentVol.driver = "blk"
    /\ CurrentVol.source \in {"/dev/loop7", "/dev/loop8"}
    /\ Len(devices') = Len(devices) + 1

\* the step appended one storage, its source the PCI path of the new device,
\* and one mount, its destination base/device-id/suffix
BlockCached ==
    LET device == devices'[Len(devices')]
        vol == STORAGE_INFO'[Len(STORAGE_INFO')]
        mount == OCI_MOUNTS_INFO'[Len(OCI_MOUNTS_INFO')]
    IN  /\ Len(STORAGE_INFO') = Len(STORAGE_INFO) + 1
        /\ IsPrefix(STORAGE_INFO, STORAGE_INFO')
        /\ vol.source = device.pci_path
        /\ vol.source # CurrentVol.source
        /\ vol.source # ""
        /\ Len(OCI_MOUNTS_INFO') = Len(OCI_MOUNTS_INFO) + 1
        /\ IsPrefix(OCI_MOUNTS_INFO, OCI_MOUNTS_INFO')
        /\ mount.destination =
             "/tmp/foo" \o "/" \o device.device_id \o "/" \o "test-blk-vol"

\* C8 as stated: for every blk descriptor with a block special source whose
\* attach succeeds, one storage with the rewritten source and one mount with
\* the base/device-id/suffix destination are appended.
C8_EveryAttachCached ==
    [][BlockAttached => BlockCached]_vars

\* C8 as amended: the same, for the attaches that return a device with a PCI
\* path.
C8_AttachWithPciCached ==
    [][(BlockAttached /\ devices'[Len(devices')].pci_path # NoPci)
         => BlockCached]_vars

\* C8 witness: a block volume is cached with the PCI path of its device as
\* source
C8_Witness ==
    /\ Len(STORAGE_INFO) = 1 /\ Len(devices) = 2
    /\ STORAGE_INFO[1].source = devices[2].pci_path
    /\ OCI_MOUNTS_INFO[1].destination = "/tmp/foo/dev2/test-blk-vol"

\* C9: the host-unmount cache holds exactly the targets of the bind mounts
\* that succeeded, in their order: one entry for each, and none for a
\* descriptor whose directory check or bind mount failed.
C9_UnmountCacheIsBindMounts ==
    UNMOUNT_HOST_INFO = bind_log

\* C9 witness: a call bound and cached one shared directory and then failed
\* to bind the next
C9_Witness ==
    /\ n_inject = 1 /\ op = "idle"
    /\ inj_result = "Err: failed to bind mount"
    /\ Len(UNMOUNT_HOST_INFO) = 1 /\ Len(bind_log) = 1

\* C17: a call of unmount_shares that worked through every path of the
\* pending-unmount cache and returned Ok leaves that cache empty.
C17_TeardownEmptiesCache ==
    [][(op = "unmount" /\ op' = "idle" /\ um_result' = Ok)
         => UNMOUNT_HOST_INFO' = <<>>]_vars

\* a step in which a device attach, a bind mount or an unmount is made
SyscallStep ==
    \/ attach_log' # attach_log
    \/ bind_log' # bind_log
    \/ unmount_log' # unmount_log

\* C18: no device attach, bind mount or unmount is made in a step that
\* starts with one of the cache locks held.
C18_NoLockAcrossSyscall ==
    [][SyscallStep => locks = {}]_vars

\* C21: when the attach of a blk descriptor succeeds and the device it
\* returns has no PCI path, do_handle_storage ends with the error "block
\* driver is blk but no pci path exists" and the storage cache and the mount
\* cache are as they were before that descriptor.
C21_NoPciPathIsFatal ==
    [][(BlockAttached /\ devices'[Len(devices')].pci_path = NoPci)
         => /\ op' = "idle"
            /\ inj_result' = "block driver is blk but no pci path exists"
            /\ STORAGE_INFO' = STORAGE_INFO
            /\ OCI_MOUNTS_INFO' = OCI_MOUNTS_INFO]_vars

\* C21 witness: a call failed on a device without PCI path, after it had
\* cached one block volume
C21_Witness ==
    /\ op = "idle" /\ n_inject = 1
    /\ inj_result = "block driver is blk but no pci path exists"
    /\ Len(devices) = 3 /\ devices[3].pci_path = NoPci
    /\ Len(STORAGE_INFO) = 1 /\ Len(OCI_MOUNTS_INFO) = 1

\* what a step of do_handle_storage on one descriptor added to the caches
Added ==
    <<Len(STORAGE_INFO') - Len(STORAGE_INFO),
      Len(OCI_MOUNTS_INFO') - Len(OCI_MOUNTS_INFO),
      Len(UNMOUNT_HOST_INFO') - Len(UNMOUNT_HOST_INFO)>>

\* C22: in every state the mount cache has as many entries as the storage
\* cache and the pending-unmount cache together; a descriptor that is
\* handled with success adds one storage and one mount if it is a block
\* descriptor, one mount and one pending-unmount path if it is a
\* shared-directory descriptor, and a descriptor that fails adds nothing.
C22_CacheSizes ==
    /\ [](Len(OCI_MOUNTS_INFO) = Len(STORAGE_INFO) + Len(UNMOUNT_HOST_INFO))
    /\ [][(op = "inject" /\ inj.idx <= Len(inj.storages)) =>
            IF op' = "idle"
            THEN inj_result' # Ok /\ Added = <<0, 0, 0>>
            ELSE /\ CurrentVol.driver = "blk" => Added = <<1, 1, 0>>
                 /\ CurrentVol.driver = "virtio-fs" => Added = <<0, 1, 1>>
                 /\ CurrentVol.driver \in {"blk", "virtio-fs"}]_vars

\* C22 witness: after a call that cached a block volume and failed, and a
\* call that cached a shared directory, the caches hold 1, 2 and 1 entries
C22_Witness ==
    /\ op = "idle" /\ n_inject = 2 /\ n_unmount = 0
    /\ Len(STORAGE_INFO) = 1 /\ Len(UNMOUNT_HOST_INFO) = 1
    /\ Len(OCI_MOUNTS_INFO) = 2
    /\ OCI_MOUNTS_INFO[2].destination = CNT_MNT_BASE

\* the block devices do_handle_storage attached (the boot of the VM the
\* pipeline runs on attached none), in the order of their attach
IsInjected(dev) == dev.kind = "Block"

InjectedBlocks == SelectSeq(devices, IsInjected)

HasPciPath(dev) == dev.kind = "Block" /\ dev.pci_path # NoPci

InjectedBlocksWithPci == SelectSeq(devices, HasPciPath)

\* the k-th storage and the k-th block mount are those of the k-th device
CachedFor(blocks) ==
    /\ Len(STORAGE_INFO) = Len(blocks)
    /\ \A k \in 1..Len(STORAGE_INFO) :
         /\ k <= Len(blocks)
         /\ STORAGE_INFO[k].mount_point =
              "/run/kata-containers/" \o blocks[k].device_id \o "/test-blk-vol"
         /\ \E m \in 1..Len(OCI_MOUNTS_INFO) :
              OCI_MOUNTS_INFO[m].destination =
                "/tmp/foo/" \o blocks[k].device_id \o "/test-blk-vol"

\* C23 as stated: between the calls of do_handle_storage every block device
\* it attached has its entry in the storage cache and in the mount cache,
\* and there are as many storage entries as such devices.
C23_EveryBlockCached ==
    op = "idle" => CachedFor(InjectedBlocks)

\* C23 as amended: the same, for the block devices that carry a PCI path.
C23_EveryBlockWithPciCached ==
    op = "idle" => CachedFor(InjectedBlocksWithPci)

\* C23 witness: after a failed call two block devices with a PCI path are
\* attached and two storages are cached
C23_Witness ==
    /\ op = "idle" /\ inj_result \notin {Ok, Pending}
    /\ Len(InjectedBlocksWithPci) = 2 /\ Len(STORAGE_INFO) = 2

(***************************************************************************)
(* Claims about the device attaches of boot and inject, checked under      *)
(* SpecBootInject.                                                         *)
(***************************************************************************)
\* the attaches setup_test_vm makes, in the order of its text
BootAttaches ==
    (IF hypervisor_name = QEMU_HYP
     THEN <<AttachEvent("call", "VsockCfg", "VMADDR_CID_ANY")>> ELSE <<>>)
    \o (IF hypervisor_name = QEMU_HYP /\ image
        THEN <<AttachEvent("call", "BlockCfg", BootImage)>> ELSE <<>>)
    \o (IF fs_sharing = "yes"
        THEN <<AttachEvent("call", "ShareFsCfg", "")>> ELSE <<>>)

\* C19: at most one call of do_handle_device is under way in any state; the
\* attaches of a boot are made in the order of the text of setup_test_vm and
\* before any attach of inject; an attach made by do_handle_storage is the
\* attach of the descriptor it is at, has returned when the step ends, and
\* the position in the list never goes back.
C19_AttachesOneAtATime ==
    /\ [](InFlight <= 1)
    /\ [](IF test_vm.present THEN IsPrefix(BootAttaches, Issued)
                             ELSE IsPrefix(Issued, BootAttaches))
    /\ [][(op = "inject" /\ attach_log' # attach_log) =>
            /\ inj.idx <= Len(inj.storages)
            /\ attach_log' = attach_log
                 \o <<AttachEvent("call", "BlockCfg", CurrentVol.source),
                      AttachEvent("return", "BlockCfg", CurrentVol.source)>>
         ]_vars
    /\ [][(op = "inject" /\ op' = "inject") =>
            /\ inj'.storages = inj.storages
            /\ inj'.idx \in {inj.idx, inj.idx + 1}]_vars

\* C19 witness: on a Qemu VM booted from an image with a sidecar, a call of
\* do_handle_storage has attached two block volumes
C19_Witness ==
    /\ hypervisor_name = QEMU_HYP /\ image /\ fs_sharing = "yes"
    /\ op = "inject" /\ inj.idx = 3
    /\ Len(Issued) = 5 /\ InFlight = 0
    /\ Issued[4].path = inj.storages[1].source
    /\ Issued[5].path = inj.storages[2].source

=============================================================================
